---- MODULE Spec2Model ----
(***************************************************************************)
(* Userspace/kernel boundary of the Cortex-M port                          *)
(* (arch/cortex-m/src/syscall.rs): the stored process state, the packed    *)
(* system call batcher and the four state-changing operations of           *)
(* UserspaceKernelBoundary.  Addresses are byte addresses; process memory  *)
(* is a function from word-aligned addresses to machine words.             *)
(***************************************************************************)
EXTENDS Integers, Sequences, FiniteSets, TLC

\* ------------------------------------------------------------------------
\* Bounds of the model
\* ------------------------------------------------------------------------
\* largest entry count a process passes to the packed system call
MaxBatch == 3
\* most calls of initialize_process, set_process_function and (with no batch
\* pending) set_syscall_return_value between two runs of the process
MaxSetup == 1

\* ------------------------------------------------------------------------
\* Program constants
\* ------------------------------------------------------------------------
SVC_FRAME_SIZE == 32
\* mem::size_of::<u32>()
U32_SZ == 4
\* words of one packed entry: svc number, r0, r1, r2, r3
ENTRY_WORDS == 5
\* svc number that starts a packed system call (0xfe)
PACKED_SVC == 254
\* psr after initialize_process: Thumb bit only (0x01000000)
INITIAL_PSR == 16777216
\* SyscallReturnVariant::FailureU32 and ::Success of the kernel crate
FailureU32 == 1
Success == 128
\* svc number of Yield in the kernel crate's SyscallClass
YIELD_SVC == 0

\* Option::None
None == <<>>

\* ------------------------------------------------------------------------
\* Inputs: bounds, memory layout, process behaviour
\* ------------------------------------------------------------------------
\* accessible_memory_start values the caller passes
MemStarts == {8}
\* app_brk values the caller passes to switch / set_syscall_return_value /
\* set_process_function (the break may move between two calls)
Brks == {68, 100}
\* app_brk values passed to initialize_process (36: a region of 28 bytes, below
\* one frame; 40: a region of exactly one frame)
InitBrks == {36, 40, 100}
\* modelled RAM: the words at the word-aligned byte addresses 0, 4, .. 140,
\* kept as a sequence (word i at address 4 * (i - 1))
WordIndexes == 0..35
MemAddrs == {U32_SZ * i : i \in WordIndexes}
\* byte size of one packed entry
EntryBytes == ENTRY_WORDS * U32_SZ

\* stack pointers switch_to_user may come back with
\* (4: below the region, 68: a frame that fits under brk 100, 72: no headroom)
SPs == {4, 68, 72}
\* buffer addresses a process passes to the packed system call
Pointers == {4, 8, 48}
\* error policy words a process passes
PolicyWords == {0, 1, 2}

\* instruction memory: the 16-bit instruction at pc - 2 (svc #imm8 = 0xDF00 + imm8)
CodeAt(a) ==
    CASE a = 256 -> 57088 + 2
      [] a = 258 -> 57088 + PACKED_SVC
      [] a = 260 -> 57088 + 99
      [] OTHER   -> 0
\* return addresses a frame can hold (the instruction after each svc)
PCs == {258, 260, 262}

\* frame words the hardware stacks that are not arguments
UserFrame == [r12 |-> 12, lr |-> 4097, psr |-> 553648128]
\* r4-r11 as saved by switch_to_user
UserRegs == <<4, 5, 6, 7, 8, 9, 10, 11>>
ZeroRegs == <<0, 0, 0, 0, 0, 0, 0, 0>>

\* A batch buffer prepared by the process: every entry is a Command (svc 2)
\* except entry `at`, whose svc-number word is `num`
\* (0: Yield, 99: no such call, 258: Command with a bit set above bit 7).
AllCommands == [at |-> 1, num |-> 2]
Programs ==
    {AllCommands, [at |-> 1, num |-> 258]}
        \cup {[at |-> i, num |-> n] : i \in 1..MaxBatch, n \in {0, 99}}
EntryWords(p, i) ==
    << (IF i = p.at THEN p.num ELSE 2), 10 * i + 1, 10 * i + 2, 10 * i + 3, 10 * i + 4 >>
RECURSIVE ProgramWords(_, _)
ProgramWords(p, i) ==
    IF i > MaxBatch THEN <<>> ELSE EntryWords(p, i) \o ProgramWords(p, i + 1)

\* What one run of the process leaves behind: the stack pointer it traps
\* with, the flags the handlers raised, the stacked frame, the batch buffer.
\* every combination of flags and stack pointer, and every trapped call
ClassifyRuns ==
    [sp : SPs, fault : {0, 1}, fired : {0, 1}, pc : {258},
     args : {<<1, 8, 0, 0>>}, prog : {AllCommands}]
        \cup [sp : {68}, fault : {0, 1}, fired : {1}, pc : PCs,
              args : {<<1, 8, 0, 0>>}, prog : {AllCommands}]
\* packed system calls over every program, under both policies
BatchRuns ==
    {r \in [sp : {68}, fault : {0}, fired : {1}, pc : {260},
            args : {<<c, 8, w, 0>> : c \in 1..MaxBatch, w \in {0, 1}},
            prog : Programs] : r.prog.at <= r.args[1]}
\* packed system calls with a buffer outside the region or over the frame,
\* with another policy word, with a count of 0, and with the count
\* 0x0CCCCCCD (times 20 it is 2^32 + 4) for a buffer ending at the break
EdgeRuns ==
    [sp : {68}, fault : {0}, fired : {1}, pc : {260},
     args : {<<c, p, 0, 0>> : c \in 1..MaxBatch, p \in Pointers \ {8}}
                \cup {<<MaxBatch, 8, 2, 0>>, <<0, 8, 0, 0>>, <<214748365, 96, 0, 0>>},
     prog : {AllCommands}]
ProcessRuns == {r : r \in ClassifyRuns \cup BatchRuns \cup EdgeRuns}
\* the runs that trap with `svc 0xfe` and the syscall flag raised
FlagRuns == {r : r \in {x \in ClassifyRuns : x.pc = 258 /\ x.fired = 1}}
\* the runs explored under each break: all of them under the larger one, the
\* flag and stack pointer combinations under the smaller one
RunsUnder(brk) ==
    IF brk = 100 THEN ProcessRuns ELSE FlagRuns

\* return values the kernel hands to set_syscall_return_value
ReturnValues ==
    { [ok |-> TRUE,  words |-> <<Success, 7, 0, 0>>],
      [ok |-> FALSE, words |-> <<0, 3, 0, 0>>] }
\* upcalls the kernel schedules with set_process_function
Callbacks ==
    { [pc |-> 8193, args |-> <<21, 22, 23, 24>>],
      [pc |-> 8192, args |-> <<21, 22, 23, 24>>] }

\* ------------------------------------------------------------------------
\* State
\* ------------------------------------------------------------------------
VARIABLES
    regs,            \* CortexMStoredState.regs
    yield_pc,        \* CortexMStoredState.yield_pc
    psr,             \* CortexMStoredState.psr
    psp,             \* CortexMStoredState.psp
    packed_syscall,  \* CortexMStoredState.packed_syscall: None or a PackedSyscall
    mem,             \* process memory
    APP_HARD_FAULT,  \* static flag of the hard fault handler
    SYSCALL_FIRED,   \* static flag of the svc handler
    last,            \* the last operation: arguments, result, memory accesses
    hist,            \* history of the batch created last
    setups           \* setup calls since the process last ran

vars == <<regs, yield_pc, psr, psp, packed_syscall, mem,
          APP_HARD_FAULT, SYSCALL_FIRED, last, hist, setups>>

\* ------------------------------------------------------------------------
\* Machine arithmetic and memory access
\* ------------------------------------------------------------------------
\* A usize product is kept as two 16-bit halves <<high, low>>, so that a
\* 32-bit wrap-around is computed exactly.
HalfWord == 2^16
\* x * k in usize arithmetic (wrapping at 2^32), for a small factor k
WrappingMul(x, k) ==
    LET lo == (x % HalfWord) * k
        hi == ((x \div HalfWord) * k + (lo \div HalfWord)) % HalfWord
    IN  <<hi, lo % HalfWord>>
\* a.saturating_add(w) <= limit, for a and limit below 2^31 and w in halves
SaturatingAddLeq(a, w, limit) ==
    IF w[1] >= HalfWord \div 2
    THEN FALSE
    ELSE a <= limit /\ w[1] * HalfWord + w[2] <= limit - a
\* x | 1
Or1(x) == IF x % 2 = 1 THEN x ELSE x + 1

\* read_volatile / write_volatile on process memory
InMem(a) == a % U32_SZ = 0 /\ (a \div U32_SZ) \in WordIndexes
Load(m, a) == IF InMem(a) THEN m[(a \div U32_SZ) + 1] ELSE 0
Store(m, a, v) == IF InMem(a) THEN [m EXCEPT ![(a \div U32_SZ) + 1] = v] ELSE m
\* consecutive words ws written from address a on
RECURSIVE StoreSeq(_, _, _)
StoreSeq(m, a, ws) ==
    IF ws = <<>> THEN m
    ELSE StoreSeq(Store(m, a, Head(ws)), a + U32_SZ, Tail(ws))
\* memory with every word 0
RECURSIVE Zeros(_)
Zeros(n) == IF n = 0 THEN <<>> ELSE Append(Zeros(n - 1), 0)
ZeroMem == Zeros(Cardinality(WordIndexes))
WordAddrs(a, n) == {a + U32_SZ * i : i \in 0..(n - 1)}

\* memory as one run of the process leaves it
FrameOf(run) ==
    <<run.args[1], run.args[2], run.args[3], run.args[4],
      UserFrame.r12, UserFrame.lr, run.pc, UserFrame.psr>>
ImageOf(run) ==
    StoreSeq(StoreSeq(ZeroMem, run.args[2], ProgramWords(run.prog, 1)),
             run.sp, FrameOf(run))

\* ------------------------------------------------------------------------
\* Dispatch layer (kernel crate)
\* ------------------------------------------------------------------------
\* Syscall::from_register_arguments: Some(call) for the svc numbers of
\* SyscallClass, None otherwise
FromRegisterArguments(svc_num, r0, r1, r2, r3) ==
    IF svc_num \in 0..7 THEN <<svc_num, r0, r1, r2, r3>> ELSE None
IsYield(s) == s # None /\ s[1] = YIELD_SVC

\* variant: only the word 0 asks for STOP
PolicyFrom_ZeroStops(original) == IF original = 0 THEN "STOP" ELSE "CONTINUE"
\* impl From<usize> for PackedSyscallErrorPolicy
PolicyFrom(original) == IF original = 1 THEN "CONTINUE" ELSE "STOP"

\* ------------------------------------------------------------------------
\* Bounds checks
\* ------------------------------------------------------------------------
\* the check on a pending batch, as next_packed_syscall makes it
PackedInBounds(ps, ams, brk) ==
    /\ ps.pointer >= ams
    /\ SaturatingAddLeq(ps.pointer,
                        WrappingMul(ps.count_remaining, U32_SZ * ENTRY_WORDS),
                        brk)
\* variant: the stack pointer is checked, the frame above it is not
InvalidStackPointer_NoFrame(sp, ams, brk) ==
    sp < ams \/ sp > brk
\* variant: only the lower bound is checked
InvalidStackPointer_BelowOnly(sp, ams, brk) == sp < ams
\* the check on the stacked frame
InvalidStackPointer(sp, ams, brk) ==
    sp < ams \/ sp + SVC_FRAME_SIZE > brk

\* ------------------------------------------------------------------------
\* Packed system call batcher
\* ------------------------------------------------------------------------
\* variant: the whole first word of the entry is the call number
EntryNumber_WholeWord(word) == word
\* `read_volatile(packed_syscall.pointer.offset(0)) as u8`
EntryNumber(word) == word % 256
\* variant: Yield is delivered wherever it stands in the batch
ClassifyEntry_YieldAnywhere(ps, m) ==
    LET svc_num == EntryNumber(Load(m, ps.pointer))
        syscall == FromRegisterArguments(svc_num,
                                         Load(m, ps.pointer + 4),
                                         Load(m, ps.pointer + 8),
                                         Load(m, ps.pointer + 12),
                                         Load(m, ps.pointer + 16))
    IN  IF syscall = None
        THEN [syscall |-> None, reason |-> "Fault"]
        ELSE [syscall |-> syscall, reason |-> "SyscallFired"]
\* classification of the entry read from the batch buffer
ClassifyEntry(ps, m) ==
    LET svc_num == EntryNumber(Load(m, ps.pointer))
        syscall == FromRegisterArguments(svc_num,
                                         Load(m, ps.pointer + 4),
                                         Load(m, ps.pointer + 8),
                                         Load(m, ps.pointer + 12),
                                         Load(m, ps.pointer + 16))
    IN  IF syscall = None
        THEN [syscall |-> None, reason |-> "Fault"]
        ELSE IF IsYield(syscall) /\ ps.count_remaining # 1
             THEN [syscall |-> None, reason |-> "Fault"]
             ELSE [syscall |-> syscall, reason |-> "SyscallFired"]

\* next_packed_syscall for a pending batch ps: the switch reason and the
\* addresses read.  The stored state is left as it is.
NextPackedSyscall(ams, brk, ps, m) ==
    IF PackedInBounds(ps, ams, brk)
    THEN [syscall |-> ClassifyEntry(ps, m).syscall,
          reason |-> ClassifyEntry(ps, m).reason,
          reads |-> WordAddrs(ps.pointer, ENTRY_WORDS)]
    ELSE [syscall |-> None, reason |-> "Fault", reads |-> {}]

\* ------------------------------------------------------------------------
\* History of the batch created last (observation only)
\* ------------------------------------------------------------------------
\* n, start, policy: the batch as created; pend: the entry delivered and not
\* yet answered; strict: every entry so far was delivered once and then
\* answered once; delivered, maxRead, anyFail: entries delivered, highest entry
\* the batcher read and a failure among the answers, kept while strict;
\* answers: calls of set_syscall_return_value that returned Ok;
\* end, stopAt: how the batch ended; entry_sp: the stack pointer the batch
\* was started with, where its entry-point frame lies
NoHist ==
    [n |-> 0, start |-> 0, policy |-> "STOP", delivered |-> 0, maxRead |-> 0,
     pend |-> 0, strict |-> TRUE, anyFail |-> FALSE, answers |-> 0,
     end |-> "none", stopAt |-> 0, entry_sp |-> 0]
\* what is kept of a history once the calls left the delivered-answered order
Canon(h) ==
    IF h.strict THEN h
    ELSE [h EXCEPT !.delivered = 0, !.maxRead = 0, !.pend = 0, !.anyFail = FALSE]
\* 1-based position in the batch of the entry at the cursor
IndexOf(h, ps) == ((ps.pointer - h.start) \div EntryBytes) + 1
\* a new batch of n entries at start
HistStart(n, start, policy, sp) ==
    [NoHist EXCEPT !.n = n, !.start = start, !.policy = policy, !.entry_sp = sp]
\* the batcher answered a switch_to_process with outcome out
HistSwitch(h, ps, out) ==
    Canon([h EXCEPT
              !.delivered = IF out.reason = "SyscallFired" THEN @ + 1 ELSE @,
              !.maxRead = IF out.reads # {} /\ IndexOf(h, ps) > @
                          THEN IndexOf(h, ps) ELSE @,
              !.strict = @ /\ h.pend = 0,
              !.pend = IF out.reason = "SyscallFired" THEN IndexOf(h, ps) ELSE h.pend])

\* a successful set_syscall_return_value answered the entry at the cursor
HistAnswer(h, ps, rv, after) ==
    Canon([h EXCEPT
              !.strict = @ /\ h.pend = IndexOf(h, ps),
              !.pend = 0,
              !.anyFail = @ \/ ~rv.ok,
              !.answers = @ + 1,
              !.end = IF after # None THEN "none"
                      ELSE IF ~rv.ok /\ ps.error_policy = "STOP"
                           THEN "stopped" ELSE "drained",
              !.stopAt = IF ~rv.ok /\ ps.error_policy = "STOP"
                         THEN IndexOf(h, ps) ELSE 0])

\* ------------------------------------------------------------------------
\* Initial state: CortexMStoredState::default(), flags clear
\* ------------------------------------------------------------------------
\* sp: the stack pointer returned; brk, ams: the bounds of the call; syscall:
\* the call of a SyscallFired; reads: words read of the frame at the stack
\* pointer; op: the operation; ret: what it returned; hw: switch_to_user was
\* invoked; packed: a batch was pending or was created; app_fault,
\* syscall_fired: the flags as read; breads: words read by next_packed_syscall;
\* ireads: instruction memory read; writes: words written of the frame or entry
\* the return value goes to; fwrites: words written of the frame at the stack
\* pointer under the STOP policy; arg0: frame word 0 as the syscall branch
\* read it; again: the call repeats the one before it, with the same bounds;
\* bytes: the buffer of store_context or try_from after the call; written: the
\* byte count store_context returned; fill: the byte the buffer of
\* store_context held in every position before the call; shown: the 8 frame
\* values print_context printed, each as <<high, low>> halves; thumb_error:
\* print_context printed the Thumb-only error string
NoOp ==
    [sp |-> 0, brk |-> 0, ams |-> 0, syscall |-> None, reads |-> {},
     op |-> "none", ret |-> "none", hw |-> FALSE, packed |-> FALSE,
     app_fault |-> 0, syscall_fired |-> 0,
     breads |-> {}, ireads |-> {}, writes |-> {}, fwrites |-> {}, arg0 |-> 0,
     again |-> FALSE, bytes |-> <<>>, written |-> 0, fill |-> 0,
     shown |-> <<>>, thumb_error |-> FALSE]

Init ==
    /\ regs = ZeroRegs
    /\ yield_pc = 0
    /\ psr = 0
    /\ psp = 0
    /\ packed_syscall = None
    /\ mem = ZeroMem
    /\ APP_HARD_FAULT = 0
    /\ SYSCALL_FIRED = 0
    /\ last = NoOp
    /\ hist = NoHist
    /\ setups = 0

\* ------------------------------------------------------------------------
\* initialize_process
\* ------------------------------------------------------------------------
\* variant: a region of exactly one frame is refused
NoRoomForFrame_Inclusive(ams, brk) == brk - ams <= SVC_FRAME_SIZE
\* `(app_brk - accessible_memory_start) < SVC_FRAME_SIZE`
NoRoomForFrame(ams, brk) == brk - ams < SVC_FRAME_SIZE

\* variant: the frame is not allocated
InitialPsp_NoFrame(ams, brk) == brk
\* variant: the frame is allocated below the stack pointer of the moment
InitialPsp_BelowCurrent(ams, brk) ==
    IF NoRoomForFrame(ams, brk) THEN brk
    ELSE (IF psp > brk \/ psp < ams + SVC_FRAME_SIZE THEN brk ELSE psp) - SVC_FRAME_SIZE
\* the stack pointer initialize_process leaves
InitialPsp(ams, brk) ==
    IF NoRoomForFrame(ams, brk) THEN brk ELSE brk - SVC_FRAME_SIZE

\* A call that directly repeats initialize_process (a restart tried again) is
\* not counted against MaxSetup.
InitializeProcess(ams, brk) ==
    /\ setups < MaxSetup \/ last.op = "init"
    /\ setups' = IF last.op = "init" THEN setups ELSE setups + 1
    /\ regs' = ZeroRegs
    /\ yield_pc' = 0
    /\ psr' = INITIAL_PSR
    /\ psp' = InitialPsp(ams, brk)
    /\ last' = [NoOp EXCEPT !.ams = ams, !.brk = brk, !.op = "init",
                            !.ret = IF NoRoomForFrame(ams, brk) THEN "Err" ELSE "Ok",
                            !.again = (last.op = "init" /\ last.ams = ams
                                                       /\ last.brk = brk)]
    /\ UNCHANGED <<packed_syscall, mem, APP_HARD_FAULT, SYSCALL_FIRED, hist>>

\* ------------------------------------------------------------------------
\* set_process_function
\* ------------------------------------------------------------------------
\* variant: the callback address is written as given
FunctionFrame_NoThumbBit(m, sp, callback) ==
    LET m7 == Store(m, sp + 28, psr)
        m6 == Store(m7, sp + 24, callback.pc)
        m5 == Store(m6, sp + 20, Or1(yield_pc))
    IN  StoreSeq(m5, sp, callback.args)
\* variant: r12 is cleared along with the argument registers
FunctionFrame_ClearsR12(m, sp, callback) ==
    LET m7 == Store(m, sp + 28, psr)
        m6 == Store(m7, sp + 24, Or1(callback.pc))
        m5 == Store(m6, sp + 20, Or1(yield_pc))
    IN  StoreSeq(m5, sp, callback.args \o <<0>>)
\* the frame words set_process_function writes: offsets 7, 6, 5, 3, 2, 1, 0
FunctionFrame(m, sp, callback) ==
    LET m7 == Store(m, sp + 28, psr)
        m6 == Store(m7, sp + 24, Or1(callback.pc))
        m5 == Store(m6, sp + 20, Or1(yield_pc))
    IN  StoreSeq(m5, sp, callback.args)

SetProcessFunction(ams, brk, callback) ==
    /\ setups < MaxSetup
    /\ setups' = setups + 1
    /\ IF InvalidStackPointer(psp, ams, brk)
       THEN /\ mem' = mem
            /\ last' = [NoOp EXCEPT !.op = "setfn", !.ams = ams, !.brk = brk,
                                    !.ret = "Err"]
       ELSE /\ mem' = FunctionFrame(mem, psp, callback)
            /\ last' = [NoOp EXCEPT !.op = "setfn", !.ams = ams, !.brk = brk,
                                    !.ret = "Ok",
                                    !.writes = {psp, psp + 4, psp + 8, psp + 12,
                                                psp + 20, psp + 24, psp + 28}]
    /\ UNCHANGED <<regs, yield_pc, psr, psp, packed_syscall,
                   APP_HARD_FAULT, SYSCALL_FIRED, hist>>

\* ------------------------------------------------------------------------
\* set_syscall_return_value
\* ------------------------------------------------------------------------
\* the check on the packed frame, as set_syscall_return_value makes it
PackedFrameInvalid(ps, ams, brk) ==
    \/ ps.pointer < ams
    \/ ~SaturatingAddLeq(ps.pointer,
                         WrappingMul(ps.count_remaining, U32_SZ * ENTRY_WORDS),
                         brk)
\* the check on the top-of-stack frame when no batch is pending
ReturnFrameInvalid(sp, ams, brk) ==
    sp < ams \/ sp + U32_SZ * 4 > brk

\* variant: the return value is written from the svc-number word on
ReturnSlot_AtNumber(ps) == ps.pointer
\* `packed_syscall.pointer.offset(1)`: where the return value of the current
\* entry goes
ReturnSlot(ps) == ps.pointer + U32_SZ

\* variant: the cursor moves on by two entries
AdvancePacked_SkipsEntry(ps) ==
    LET remaining == IF ps.count_remaining > 0 THEN ps.count_remaining - 1 ELSE 0
    IN  [ps EXCEPT !.count_remaining = remaining,
                   !.pointer = IF remaining > 0 THEN @ + 2 * EntryBytes ELSE @]
\* variant: the count goes down, the cursor stays
AdvancePacked_KeepsCursor(ps) ==
    [ps EXCEPT !.count_remaining = IF @ > 0 THEN @ - 1 ELSE 0]
\* the batch after the current entry is consumed
AdvancePacked(ps) ==
    LET remaining == IF ps.count_remaining > 0 THEN ps.count_remaining - 1 ELSE 0
    IN  [ps EXCEPT !.count_remaining = remaining,
                   !.pointer = IF remaining > 0 THEN @ + EntryBytes ELSE @]
\* variant: the count reported is the one before the entry was consumed
ApplyPolicy_CountBeforeEntry(ps, rv, sp) ==
    IF ~rv.ok /\ ps.error_policy = "STOP"
    THEN [packed |-> None,
          frame |-> <<FailureU32, ps.count_remaining + 1>>]
    ELSE [packed |-> IF ps.count_remaining = 0 THEN None ELSE ps,
          frame |-> <<>>]
\* variant: a failure stops the batch under either policy
ApplyPolicy_IgnoresPolicy(ps, rv, sp) ==
    IF ~rv.ok
    THEN [packed |-> None,
          frame |-> <<FailureU32, ps.count_remaining>>]
    ELSE [packed |-> IF ps.count_remaining = 0 THEN None ELSE ps,
          frame |-> <<>>]
\* variant: a batch with no entry left stays pending
ApplyPolicy_KeepsEmptyBatch(ps, rv, sp) ==
    IF ~rv.ok /\ ps.error_policy = "STOP"
    THEN [packed |-> None,
          frame |-> <<FailureU32, ps.count_remaining>>]
    ELSE [packed |-> ps, frame |-> <<>>]
\* the error policy applied to the advanced batch ps: the batch that stays,
\* and the words written to the entry-point frame at sp
ApplyPolicy(ps, rv, sp) ==
    IF ~rv.ok /\ ps.error_policy = "STOP"
    THEN [packed |-> None,
          frame |-> <<FailureU32, ps.count_remaining>>]
    ELSE [packed |-> IF ps.count_remaining = 0 THEN None ELSE ps,
          frame |-> <<>>]

SetSyscallReturnValue(ams, brk, rv) ==
    IF packed_syscall # None
    THEN IF PackedFrameInvalid(packed_syscall, ams, brk)
         THEN /\ last' = [NoOp EXCEPT !.op = "setret", !.ams = ams, !.brk = brk,
                                      !.ret = "Err", !.packed = TRUE]
              /\ UNCHANGED <<regs, yield_pc, psr, psp, packed_syscall, mem,
                             APP_HARD_FAULT, SYSCALL_FIRED, hist, setups>>
         ELSE LET pointer == ReturnSlot(packed_syscall)
                  ps1 == AdvancePacked(packed_syscall)
                  m1 == StoreSeq(mem, pointer, rv.words)
                  pol == ApplyPolicy(ps1, rv, psp)
              IN  /\ mem' = StoreSeq(m1, psp, pol.frame)
                  /\ packed_syscall' = pol.packed
                  /\ last' = [NoOp EXCEPT !.op = "setret", !.ams = ams, !.brk = brk,
                                          !.ret = "Ok", !.packed = TRUE,
                                          !.reads = {pointer},
                                          !.writes = WordAddrs(pointer, 4),
                                          !.fwrites = WordAddrs(psp, Len(pol.frame))]
                  /\ hist' = HistAnswer(hist, packed_syscall, rv, pol.packed)
                  /\ UNCHANGED <<regs, yield_pc, psr, psp,
                                 APP_HARD_FAULT, SYSCALL_FIRED, setups>>
    ELSE IF ReturnFrameInvalid(psp, ams, brk)
         THEN /\ setups < MaxSetup
              /\ setups' = setups + 1
              /\ last' = [NoOp EXCEPT !.op = "setret", !.ams = ams, !.brk = brk,
                                      !.ret = "Err"]
              /\ UNCHANGED <<regs, yield_pc, psr, psp, packed_syscall, mem,
                             APP_HARD_FAULT, SYSCALL_FIRED, hist>>
         ELSE /\ setups < MaxSetup
              /\ setups' = setups + 1
              /\ mem' = StoreSeq(mem, psp, rv.words)
              /\ last' = [NoOp EXCEPT !.op = "setret", !.ams = ams, !.brk = brk,
                                      !.ret = "Ok",
                                      !.reads = {psp},
                                      !.writes = WordAddrs(psp, 4)]
              /\ UNCHANGED <<regs, yield_pc, psr, psp, packed_syscall,
                             APP_HARD_FAULT, SYSCALL_FIRED, hist>>

\* ------------------------------------------------------------------------
\* switch_to_process
\* ------------------------------------------------------------------------
\* variant: the syscall flag is looked at before the fault flag
ReasonBranch_SyscallFirst(app_fault, syscall_fired, invalid_stack_pointer) ==
    IF invalid_stack_pointer
    THEN "Fault"
    ELSE IF syscall_fired = 1 THEN "Syscall"
         ELSE IF app_fault = 1 THEN "Fault" ELSE "Interrupted"
\* variant: every return without a fault is taken for a system call
ReasonBranch_AlwaysSyscall(app_fault, syscall_fired, invalid_stack_pointer) ==
    IF app_fault = 1 \/ invalid_stack_pointer THEN "Fault" ELSE "Syscall"
\* which branch of `switch_reason` is taken after the process ran
ReasonBranch(app_fault, syscall_fired, invalid_stack_pointer) ==
    IF app_fault = 1 \/ invalid_stack_pointer
    THEN "Fault"
    ELSE IF syscall_fired = 1 THEN "Syscall" ELSE "Interrupted"

\* variant: the whole instruction is taken for the svc number
SvcNumber_WholeInstruction(m, sp) == CodeAt(Load(m, sp + 24) - 2)
\* the svc number of the instruction before the stacked pc
SvcNumber(m, sp) == CodeAt(Load(m, sp + 24) - 2) % 256

\* variant: the count is not looked at
StartsPacked_AnyCount(svc_num, r0) == svc_num = PACKED_SVC
\* does the trapped call start a packed system call?
StartsPacked(svc_num, r0) == svc_num = PACKED_SVC /\ r0 > 0

\* variant: the cursor starts one entry into the buffer
NewPacked_PastFirstEntry(r0, r1, r2) ==
    [pointer |-> r1 + EntryBytes, count_remaining |-> r0, error_policy |-> PolicyFrom(r2)]
\* the batch a packed system call creates from its three arguments
NewPacked(r0, r1, r2) ==
    [pointer |-> r1, count_remaining |-> r0, error_policy |-> PolicyFrom(r2)]

\* the syscall branch: the frame at sp is decoded; a packed system call
\* creates the batch, marks the frame successful and drains the first entry
SyscallBranch(ams, brk, m, sp) ==
    LET r0 == Load(m, sp)
        r1 == Load(m, sp + 4)
        r2 == Load(m, sp + 8)
        r3 == Load(m, sp + 12)
        svc_num == SvcNumber(m, sp)
        frameReads == {sp, sp + 4, sp + 8, sp + 12, sp + 24, sp + 28}
        syscall == FromRegisterArguments(svc_num, r0, r1, r2, r3)
        ps == NewPacked(r0, r1, r2)
        m1 == Store(m, sp, Success)
        out == NextPackedSyscall(ams, brk, ps, m1)
    IN  IF StartsPacked(svc_num, r0)
        THEN [mem |-> m1, syscall |-> out.syscall, reason |-> out.reason,
              reads |-> frameReads, packed |-> ps,
              ireads |-> {Load(m, sp + 24) - 2}, writes |-> {sp},
              started |-> TRUE, batcher |-> out]
        ELSE [mem |-> m, syscall |-> syscall,
              reason |-> IF syscall = None THEN "Fault" ELSE "SyscallFired",
              reads |-> frameReads, packed |-> None,
              ireads |-> {Load(m, sp + 24) - 2}, writes |-> {},
              started |-> FALSE, batcher |-> None]

\* variant: a batch with one entry left is taken for finished
HasPending_LastEntryDone(ps) == ps # None /\ ps.count_remaining > 1

\* `if let Some(switch_reason) = self.next_packed_syscall(..)`: the batcher
\* answers exactly when a batch is pending
HasPending(ps) == ps # None

\* variant: the batcher moves the cursor past the entry it hands out
SwitchPacked_Advances(ams, brk) ==
    LET out == NextPackedSyscall(ams, brk, packed_syscall, mem)
        ps1 == AdvancePacked(packed_syscall)
    IN  /\ HasPending(packed_syscall)
        /\ last' = [NoOp EXCEPT !.op = "switch", !.ams = ams, !.brk = brk,
                                !.ret = out.reason, !.syscall = out.syscall,
                                !.sp = psp, !.packed = TRUE,
                                !.breads = out.reads]
        /\ hist' = HistSwitch(hist, packed_syscall, out)
        /\ packed_syscall' = IF ps1.count_remaining = 0 THEN None ELSE ps1
        /\ UNCHANGED <<regs, yield_pc, psr, psp, mem,
                       APP_HARD_FAULT, SYSCALL_FIRED, setups>>
\* a pending batch: the batcher answers, the process does not run
SwitchPacked(ams, brk) ==
    LET out == NextPackedSyscall(ams, brk, packed_syscall, mem)
    IN  /\ HasPending(packed_syscall)
        /\ last' = [NoOp EXCEPT !.op = "switch", !.ams = ams, !.brk = brk,
                                !.ret = out.reason, !.syscall = out.syscall,
                                !.sp = psp, !.packed = TRUE,
                                !.breads = out.reads]
        /\ hist' = HistSwitch(hist, packed_syscall, out)
        /\ UNCHANGED <<regs, yield_pc, psr, psp, packed_syscall, mem,
                       APP_HARD_FAULT, SYSCALL_FIRED, setups>>

\* variant: the syscall flag is cleared only when the syscall branch is taken
FlagsAfterSwitch_KeepsUnusedFlag(app_fault, syscall_fired, branch) ==
    <<0, IF branch = "Syscall" THEN 0 ELSE syscall_fired>>
\* <<APP_HARD_FAULT, SYSCALL_FIRED>> once both have been read: each is written
\* 0 right after it is read, before the reason is decided
FlagsAfterSwitch(app_fault, syscall_fired, branch) == <<0, 0>>

\* no pending batch: switch_to_user runs the process, which traps back as
\* `run` describes; the reason is then worked out from the flags and the frame
SwitchReal(ams, brk, run) ==
    \E m0 \in {ImageOf(run)} :
    \E sys \in {SyscallBranch(ams, brk, m0, run.sp)} :
    LET app_fault == IF run.fault = 1 THEN 1 ELSE APP_HARD_FAULT
        syscall_fired == IF run.fired = 1 THEN 1 ELSE SYSCALL_FIRED
        branch == ReasonBranch(app_fault, syscall_fired,
                               InvalidStackPointer(run.sp, ams, brk))
        ran == [NoOp EXCEPT !.op = "switch", !.ams = ams, !.brk = brk,
                            !.sp = run.sp, !.hw = TRUE,
                            !.app_fault = app_fault, !.syscall_fired = syscall_fired]
    IN  /\ ~HasPending(packed_syscall)
        /\ setups' = 0
        /\ regs' = UserRegs
        /\ psp' = run.sp
        /\ APP_HARD_FAULT' = FlagsAfterSwitch(app_fault, syscall_fired, branch)[1]
        /\ SYSCALL_FIRED' = FlagsAfterSwitch(app_fault, syscall_fired, branch)[2]
        /\ IF branch = "Syscall"
           THEN /\ yield_pc' = Load(m0, run.sp + 24)
                /\ psr' = Load(m0, run.sp + 28)
                /\ packed_syscall' = IF sys.started THEN sys.packed ELSE packed_syscall
                /\ mem' = sys.mem
                /\ last' = [ran EXCEPT !.ret = sys.reason, !.syscall = sys.syscall,
                                       !.packed = sys.started,
                                       !.arg0 = Load(m0, run.sp),
                                       !.reads = sys.reads, !.ireads = sys.ireads,
                                       !.breads = IF sys.started
                                                  THEN sys.batcher.reads ELSE {},
                                       !.writes = sys.writes]
                /\ hist' = IF sys.started
                           THEN HistSwitch(HistStart(sys.packed.count_remaining,
                                                     sys.packed.pointer,
                                                     sys.packed.error_policy,
                                                     run.sp),
                                           sys.packed, sys.batcher)
                           ELSE NoHist
           ELSE /\ mem' = m0
                /\ last' = [ran EXCEPT !.ret = branch]
                /\ hist' = NoHist
                /\ UNCHANGED <<yield_pc, psr, packed_syscall>>

SwitchToProcess(ams, brk) ==
    \/ SwitchPacked(ams, brk)
    \/ \E run \in RunsUnder(brk) : SwitchReal(ams, brk, run)

\* ------------------------------------------------------------------------
\* print_context
\* ------------------------------------------------------------------------
\* 0xBAD00BAD as <<high, low>> 16-bit halves
BadValue == <<47824, 2989>>
\* a memory word as <<high, low>> 16-bit halves
Halves(w) == <<w \div HalfWord, w % HalfWord>>
\* the 8 values print_context takes for r0 .. r3, r12, lr, pc, xpsr
PrintedFrame(m, sp, invalid_stack_pointer) ==
    IF invalid_stack_pointer
    THEN <<BadValue, BadValue, BadValue, BadValue,
           BadValue, BadValue, BadValue, BadValue>>
    ELSE <<Halves(Load(m, sp)), Halves(Load(m, sp + 4)),
           Halves(Load(m, sp + 8)), Halves(Load(m, sp + 12)),
           Halves(Load(m, sp + 16)), Halves(Load(m, sp + 20)),
           Halves(Load(m, sp + 24)), Halves(Load(m, sp + 28))>>
\* variant: bit 25 is taken for the Thumb bit
ThumbBit_Bit25(xpsr) == (xpsr[1] \div 512) % 2 = 1
\* ((xpsr >> 24) & 0x1) == 1
ThumbBit(xpsr) == (xpsr[1] \div 256) % 2 = 1

PrintContext(ams, brk) ==
    LET invalid_stack_pointer == InvalidStackPointer(psp, ams, brk)
        frame == PrintedFrame(mem, psp, invalid_stack_pointer)
    IN  /\ last' = [NoOp EXCEPT !.brk = brk, !.ams = ams,
                                !.reads = IF invalid_stack_pointer THEN {}
                                          ELSE {psp, psp + 4, psp + 8, psp + 12,
                                                psp + 16, psp + 20, psp + 24,
                                                psp + 28},
                                !.op = "print",
                                !.shown = frame,
                                !.thumb_error = ~ThumbBit(frame[8])]
        /\ UNCHANGED <<regs, yield_pc, psr, psp, packed_syscall, mem,
                       APP_HARD_FAULT, SYSCALL_FIRED, hist, setups>>

\* ------------------------------------------------------------------------
\* Specification: the kernel calls the operations in any order, with the
\* bounds of the moment
\* ------------------------------------------------------------------------
Initialize == \E ams \in MemStarts, brk \in InitBrks : InitializeProcess(ams, brk)
Switch == \E ams \in MemStarts, brk \in Brks : SwitchToProcess(ams, brk)
SetReturn ==
    \E ams \in MemStarts, brk \in Brks, rv \in ReturnValues :
        SetSyscallReturnValue(ams, brk, rv)
SetFunction ==
    \E ams \in MemStarts, brk \in Brks, cb \in Callbacks :
        SetProcessFunction(ams, brk, cb)


Next == Initialize \/ Switch \/ SetReturn \/ SetFunction

Spec == Init /\ [][Next]_vars

\* ------------------------------------------------------------------------
\* The fault report: print_context on what a trap, a restart or a scheduled
\* upcall left behind
\* ------------------------------------------------------------------------
\* the process runs and traps with `svc 0xfe`, under either break
Trap ==
    \E ams \in MemStarts, brk \in Brks, run \in FlagRuns : SwitchReal(ams, brk, run)
Diagnose == \E ams \in MemStarts, brk \in Brks : PrintContext(ams, brk)

DiagnoseNext == Initialize \/ Trap \/ SetFunction \/ Diagnose

SpecDiagnose == Init /\ [][DiagnoseNext]_vars

\* ------------------------------------------------------------------------
\* The kernel loop: switch_to_process, and one set_syscall_return_value for
\* every SyscallFired, under unchanged bounds
\* ------------------------------------------------------------------------
LoopStart == 8
LoopBrk == 100
\* runs whose batch lies inside the region and below the stacked frame and
\* holds only calls that decode, a Yield at most as its last entry; and runs
\* that start no batch.  (An entry lying on the frame starts with the success
\* code written at batch start, which decodes to no call.)
LoopRuns ==
    {r : r \in {x \in BatchRuns :
                    /\ x.args[2] + x.args[1] * EntryBytes <= x.sp
                    /\ \/ x.prog.num \in {2, 258}
                       \/ (x.prog.num = 0 /\ x.prog.at = x.args[1])}
                \cup {x \in ClassifyRuns : x.sp = 68 /\ x.fault = 0}}
\* switch_to_process returned SyscallFired and the call is not answered yet
Unanswered == last.op = "switch" /\ last.ret = "SyscallFired"
LoopSwitch ==
    /\ ~Unanswered
    /\ \/ SwitchPacked(LoopStart, LoopBrk)
       \/ \E run \in LoopRuns : SwitchReal(LoopStart, LoopBrk, run)
LoopAnswer ==
    /\ Unanswered
    /\ \E rv \in ReturnValues : SetSyscallReturnValue(LoopStart, LoopBrk, rv)

LoopNext == LoopSwitch \/ LoopAnswer

SpecLoop == Init /\ [][LoopNext]_vars /\ WF_vars(LoopNext)

\* ------------------------------------------------------------------------
\* The stored state as a byte buffer: store_context and try_from
\* ------------------------------------------------------------------------
VERSION == 1
\* size_of::<CortexMStoredState>() on the 32-bit target: regs 8 * 4, yield_pc,
\* psr and psp 3 * 4, packed_syscall (two words and the policy) 12
STORED_STATE_SIZE == 56
TAG == <<99, 116, 120, 109>>
METADATA_LEN == 3
VERSION_IDX == 0
SIZE_IDX == 1
TAG_IDX == 2
YIELDPC_IDX == 3
PSR_IDX == 4
PSP_IDX == 5
REGS_IDX == 6
USIZE_SZ == 4

\* usize::from_le_bytes and usize::to_le_bytes
FromLeBytes(b) == b[1] + 256 * b[2] + 65536 * b[3] + 16777216 * b[4]
ToLeBytes(v) ==
    <<v % 256, (v \div 256) % 256, (v \div 65536) % 256, (v \div 16777216) % 256>>

\* the bytes of word index of a slice, first .. last, counted from 1
UsizeByteRange(index) ==
    [first |-> index * USIZE_SZ + 1, until |-> (index + 1) * USIZE_SZ]
\* usize_from_u8_slice: the word, or -1 for Err(SIZE) when the slice is short
UsizeFromU8Slice(slice, index) ==
    LET range == UsizeByteRange(index)
    IN  IF range.until <= Len(slice)
        THEN FromLeBytes(SubSeq(slice, range.first, range.until))
        ELSE -1
\* write_usize_to_u8_slice
WriteUsizeToU8Slice(val, slice, index) ==
    LET range == UsizeByteRange(index)
    IN  SubSeq(slice, 1, range.first - 1) \o ToLeBytes(val)
            \o SubSeq(slice, range.until + 1, Len(slice))
RECURSIVE WriteWords(_, _, _)
\* consecutive write_usize_to_u8_slice calls, from word index on
WriteWords(ws, slice, index) ==
    IF ws = <<>> THEN slice
    ELSE WriteWords(Tail(ws), WriteUsizeToU8Slice(Head(ws), slice, index), index + 1)

\* variant: a buffer at least as long as expected is accepted
LengthAccepted_AtLeast(len) == len >= STORED_STATE_SIZE + METADATA_LEN * USIZE_SZ
\* the length test of try_from
LengthAccepted(len) == len = STORED_STATE_SIZE + METADATA_LEN * USIZE_SZ
\* the condition of try_from
TryFromAccepts(ss) ==
    /\ LengthAccepted(Len(ss))
    /\ UsizeFromU8Slice(ss, VERSION_IDX) = VERSION
    /\ UsizeFromU8Slice(ss, SIZE_IDX) = STORED_STATE_SIZE
    /\ UsizeFromU8Slice(ss, TAG_IDX) = FromLeBytes(TAG)
\* variant: the pending batch of the stored state is carried over
TryFromState_KeepsBatch(ss) ==
    [psr |-> UsizeFromU8Slice(ss, PSR_IDX),
     regs |-> <<UsizeFromU8Slice(ss, REGS_IDX), UsizeFromU8Slice(ss, REGS_IDX + 1),
                UsizeFromU8Slice(ss, REGS_IDX + 2), UsizeFromU8Slice(ss, REGS_IDX + 3),
                UsizeFromU8Slice(ss, REGS_IDX + 4), UsizeFromU8Slice(ss, REGS_IDX + 5),
                UsizeFromU8Slice(ss, REGS_IDX + 6), UsizeFromU8Slice(ss, REGS_IDX + 7)>>,
     yield_pc |-> UsizeFromU8Slice(ss, YIELDPC_IDX),
     psp |-> UsizeFromU8Slice(ss, PSP_IDX),
     packed_syscall |-> packed_syscall]
\* the state try_from builds from an accepted buffer
TryFromState(ss) ==
    [psr |-> UsizeFromU8Slice(ss, PSR_IDX),
     regs |-> <<UsizeFromU8Slice(ss, REGS_IDX), UsizeFromU8Slice(ss, REGS_IDX + 1),
                UsizeFromU8Slice(ss, REGS_IDX + 2), UsizeFromU8Slice(ss, REGS_IDX + 3),
                UsizeFromU8Slice(ss, REGS_IDX + 4), UsizeFromU8Slice(ss, REGS_IDX + 5),
                UsizeFromU8Slice(ss, REGS_IDX + 6), UsizeFromU8Slice(ss, REGS_IDX + 7)>>,
     yield_pc |-> UsizeFromU8Slice(ss, YIELDPC_IDX),
     psp |-> UsizeFromU8Slice(ss, PSP_IDX),
     packed_syscall |-> None]

\* variant: psp is written before psr
HeaderWords_PspBeforePsr(state) ==
    <<VERSION, STORED_STATE_SIZE, FromLeBytes(TAG), state.yield_pc, state.psp, state.psr>>
\* the six words store_context writes before the registers
HeaderWords(state) ==
    <<VERSION, STORED_STATE_SIZE, FromLeBytes(TAG), state.yield_pc, state.psr, state.psp>>
\* store_context on state and the buffer out
StoreContextResult(state, out) ==
    IF Len(out) >= STORED_STATE_SIZE + 3 * USIZE_SZ
    THEN [ret |-> "Ok",
          bytes |-> WriteWords(state.regs,
                               WriteWords(HeaderWords(state), out, VERSION_IDX),
                               REGS_IDX),
          written |-> (Len(state.regs) + 3 + METADATA_LEN) * USIZE_SZ]
    ELSE [ret |-> "SIZE", bytes |-> out, written |-> 0]

\* the stored state as one record
StoredState ==
    [psr |-> psr, regs |-> regs, yield_pc |-> yield_pc, psp |-> psp,
     packed_syscall |-> packed_syscall]
\* stored states a snapshot is taken of
SnapshotStates ==
    {st : st \in
        [psr : {INITIAL_PSR, UserFrame.psr}, regs : {UserRegs, ZeroRegs},
         yield_pc : {0, 262}, psp : {0, 68},
         packed_syscall : {None, NewPacked(3, 8, 0)}]}
RECURSIVE Filled(_, _)
\* a buffer of len bytes, each holding b
Filled(len, b) == IF len = 0 THEN <<>> ELSE Append(Filled(len - 1, b), b)
\* lengths and earlier contents of the buffers handed to store_context
OutLengths == {0, 55, 56, 67, 68, 69, 80}
OutFills == {0, 170}
\* what may follow the 14 words in a buffer of the length try_from expects
Tails == {Filled(12, 0), <<1, 2, 3, 4, 5, 6, 7, 8, 9, 10, 11, 12>>}
\* buffers try_from accepts
ValidBuffers ==
    {WriteWords(st.regs, WriteWords(HeaderWords(st), Filled(56, 0), 0), 6) \o t :
        st \in {x \in SnapshotStates : x.psp = 68 /\ x.yield_pc = 262}, t \in Tails}
\* the valid buffers that are cut, extended or changed in one byte
BaseBuffers == {b \in ValidBuffers : b[25] = 4 /\ b[57] = 0}
\* one byte of the version, size or tag field changed
Corrupted ==
    {[b EXCEPT ![i] = (@ + d) % 256] : b \in BaseBuffers, i \in 1..12, d \in {1, 18}}
\* a valid buffer cut or extended
WrongLength ==
    {SubSeq(b, 1, k) : b \in BaseBuffers, k \in {0, 56, 67}}
        \cup {b \o <<0>> : b \in BaseBuffers}
DecodeInputs == {b : b \in ValidBuffers \cup Corrupted \cup WrongLength}

CodecInit ==
    /\ \E st \in SnapshotStates :
          /\ regs = st.regs
          /\ yield_pc = st.yield_pc
          /\ psr = st.psr
          /\ psp = st.psp
          /\ packed_syscall = st.packed_syscall
    /\ mem = ZeroMem
    /\ APP_HARD_FAULT = 0
    /\ SYSCALL_FIRED = 0
    /\ last = NoOp
    /\ hist = NoHist
    /\ setups = 0

\* store_context into a buffer of len bytes that held b everywhere
StoreContext(len, b) ==
    LET res == StoreContextResult(StoredState, Filled(len, b))
    IN  /\ last' = [NoOp EXCEPT !.op = "store", !.ret = res.ret,
                                !.packed = (packed_syscall # None),
                                !.bytes = res.bytes, !.written = res.written,
                                !.fill = b]
        /\ UNCHANGED <<regs, yield_pc, psr, psp, packed_syscall, mem,
                       APP_HARD_FAULT, SYSCALL_FIRED, hist, setups>>

\* CortexMStoredState::try_from(ss); the state it returns becomes the stored
\* state
TryFrom(ss) ==
    /\ IF TryFromAccepts(ss)
       THEN /\ regs' = TryFromState(ss).regs
            /\ yield_pc' = TryFromState(ss).yield_pc
            /\ psr' = TryFromState(ss).psr
            /\ psp' = TryFromState(ss).psp
            /\ packed_syscall' = TryFromState(ss).packed_syscall
       ELSE UNCHANGED <<regs, yield_pc, psr, psp, packed_syscall>>
    /\ last' = [NoOp EXCEPT !.op = "decode",
                            !.ret = IF TryFromAccepts(ss) THEN "Ok" ELSE "FAIL",
                            !.packed = (packed_syscall # None),
                            !.bytes = ss]
    /\ UNCHANGED <<mem, APP_HARD_FAULT, SYSCALL_FIRED, hist, setups>>

Encode == \E len \in OutLengths, b \in OutFills : StoreContext(len, b)
Decode == \E ss \in DecodeInputs : TryFrom(ss)
\* try_from on what store_context just produced: the whole buffer, or the
\* bytes store_context reported as written
Restore ==
    /\ last.op = "store" /\ last.ret = "Ok"
    /\ \E whole \in BOOLEAN :
          TryFrom(IF whole THEN last.bytes ELSE SubSeq(last.bytes, 1, last.written))

CodecNext == Encode \/ Decode \/ Restore

SpecCodec == CodecInit /\ [][CodecNext]_vars

\* ------------------------------------------------------------------------
\* Properties
\* ------------------------------------------------------------------------

\* C1: while a packed batch is pending, switch_to_process never invokes
\* switch_to_user: the process does not run (registers and memory stay as they
\* are), and the call returns the batcher's outcome for the entry at the cursor
\* together with the unchanged stored stack pointer.
C1_PendingBatchNeverRuns ==
    [][ (packed_syscall # None /\ last'.op = "switch")
            => /\ ~last'.hw
               /\ psp' = psp
               /\ last'.sp = psp
               /\ regs' = regs
               /\ mem' = mem
               /\ last'.ret = NextPackedSyscall(last'.ams, last'.brk,
                                                packed_syscall, mem).reason
               /\ last'.syscall = NextPackedSyscall(last'.ams, last'.brk,
                                                    packed_syscall, mem).syscall
      ]_vars
\* the second entry of a batch is delivered without a run of the process
C1_Witness ==
    /\ last.op = "switch" /\ ~last.hw /\ last.ret = "SyscallFired"
    /\ packed_syscall # None
    /\ hist.n >= 2 /\ IndexOf(hist, packed_syscall) = 2

\* C2: in a batch of N entries under the STOP policy, once a failure value is
\* written for entry k, word 0 of the frame at the stack pointer holds the
\* failure code and word 1 holds N - k, and no batch is pending.  The batcher
\* reads no words but those of the entry at the cursor, so that in a batch
\* delivered and answered entry by entry the highest entry read is k, and
\* nothing is read from the batch once it has stopped.
C2_StopOnErrorReportsSkipped ==
    /\ hist.end = "stopped"
        => /\ packed_syscall = None
           /\ last.breads = {}
           /\ hist.strict => hist.maxRead = hist.stopAt
           /\ (last.op = "setret" /\ last.packed)
                 => /\ Load(mem, psp) = FailureU32
                    /\ Load(mem, psp + 4) = hist.n - hist.stopAt
    /\ (last.op = "switch" /\ packed_syscall # None)
        => last.breads \subseteq WordAddrs(packed_syscall.pointer, ENTRY_WORDS)
\* entry 2 of 3 failed: one entry is reported as not executed
C2_Witness ==
    /\ hist.end = "stopped" /\ hist.n = 3 /\ hist.stopAt = 2
    /\ last.op = "setret" /\ last.packed /\ last.ret = "Ok"
    /\ Load(mem, psp) = FailureU32 /\ Load(mem, psp + 4) = 1
    /\ hist.strict /\ hist.maxRead = 2

\* the batch a switch_to_process step looks at: the pending one, or the one
\* the step creates
BatchInView == IF packed_syscall # None THEN packed_syscall ELSE packed_syscall'

\* C3 as stated: under the CONTINUE policy every entry that is in bounds and
\* whose call number is recognized is delivered as SyscallFired, and every
\* answer, success or failure, moves the batch on by exactly one entry, so
\* that a batch answered entry by entry ends with all N entries delivered.
C3_Original ==
    [][ /\ ( /\ last'.op = "switch"
             /\ BatchInView # None
             /\ BatchInView.error_policy = "CONTINUE"
             /\ BatchInView.pointer >= last'.ams
             /\ BatchInView.pointer + BatchInView.count_remaining * EntryBytes
                    <= last'.brk
             /\ FromRegisterArguments(Load(mem', BatchInView.pointer) % 256,
                                      0, 0, 0, 0) # None )
            => last'.ret = "SyscallFired"
        /\ ( /\ packed_syscall # None
             /\ packed_syscall.error_policy = "CONTINUE"
             /\ last'.op = "setret" /\ last'.ret = "Ok" )
            => packed_syscall' =
                   IF packed_syscall.count_remaining > 1
                   THEN [packed_syscall EXCEPT
                            !.count_remaining = @ - 1, !.pointer = @ + EntryBytes]
                   ELSE None
        /\ (hist'.policy = "CONTINUE" /\ hist'.end = "drained" /\ hist'.strict)
            => hist'.delivered = hist'.n
      ]_vars

\* C3 (amended): as C3_Original, for entries that are not a Yield before the
\* last position; the delivered call is the one decoded from the entry.
C3_ContinueDeliversAll ==
    [][ /\ ( /\ last'.op = "switch"
             /\ BatchInView # None
             /\ BatchInView.error_policy = "CONTINUE"
             /\ BatchInView.pointer >= last'.ams
             /\ BatchInView.pointer + BatchInView.count_remaining * EntryBytes
                    <= last'.brk
             /\ FromRegisterArguments(Load(mem', BatchInView.pointer) % 256,
                                      0, 0, 0, 0) # None
             /\ ~ ( Load(mem', BatchInView.pointer) % 256 = YIELD_SVC
                    /\ BatchInView.count_remaining > 1 ) )
            => /\ last'.ret = "SyscallFired"
               /\ last'.syscall =
                    << Load(mem', BatchInView.pointer) % 256,
                       Load(mem', BatchInView.pointer + 4),
                       Load(mem', BatchInView.pointer + 8),
                       Load(mem', BatchInView.pointer + 12),
                       Load(mem', BatchInView.pointer + 16) >>
        /\ ( /\ packed_syscall # None
             /\ packed_syscall.error_policy = "CONTINUE"
             /\ last'.op = "setret" /\ last'.ret = "Ok" )
            => packed_syscall' =
                   IF packed_syscall.count_remaining > 1
                   THEN [packed_syscall EXCEPT
                            !.count_remaining = @ - 1, !.pointer = @ + EntryBytes]
                   ELSE None
        /\ (hist'.policy = "CONTINUE" /\ hist'.end = "drained" /\ hist'.strict)
            => hist'.delivered = hist'.n
      ]_vars
\* a batch of 3 under CONTINUE drained entry by entry, with a failure among
\* the answers
C3_Witness ==
    /\ hist.policy = "CONTINUE" /\ hist.end = "drained" /\ hist.strict
    /\ hist.n = 3 /\ hist.anyFail /\ hist.delivered = 3
    /\ packed_syscall = None

\* C4: a batch entry that decodes to Yield is classified Fault when more than
\* one entry remains at the time it is read and SyscallFired when it is the
\* last one, for the entry drained by the trap that starts the batch as for
\* the entries drained by later calls.
C4_YieldOnlyLast ==
    ( /\ last.op = "switch"
      /\ packed_syscall # None
      /\ last.breads # {}
      /\ Load(mem, packed_syscall.pointer) % 256 = YIELD_SVC )
        => IF packed_syscall.count_remaining > 1
           THEN last.ret = "Fault"
           ELSE last.ret = "SyscallFired" /\ last.syscall[1] = YIELD_SVC
\* a Yield in the last position of a longer batch is delivered by a later call
C4_Witness ==
    /\ last.op = "switch" /\ ~last.hw /\ packed_syscall # None
    /\ hist.n >= 2 /\ packed_syscall.count_remaining = 1
    /\ Load(mem, packed_syscall.pointer) % 256 = YIELD_SVC
    /\ last.ret = "SyscallFired" /\ last.syscall[1] = YIELD_SVC

\* C5: when the batcher classifies an entry of a batch as Fault (out of
\* bounds, unrecognized call number, Yield before the last entry), the batch
\* is discarded: after switch_to_process returns no batch is pending.
C5_FaultDiscardsBatch ==
    (last.op = "switch" /\ last.packed /\ last.ret = "Fault")
        => packed_syscall = None

\* C6: before a batch entry is read the range [cursor, cursor + remaining * 5
\* words) is checked against the bounds of that very call: when the cursor is
\* below accessible_memory_start or the range ends above app_brk the outcome
\* is Fault and no word of the entry is read.
C6_BoundsCheckedBeforeRead ==
    ( /\ last.op = "switch"
      /\ packed_syscall # None
      /\ \/ packed_syscall.pointer < last.ams
         \/ packed_syscall.count_remaining
               > (last.brk - packed_syscall.pointer) \div EntryBytes )
        => last.ret = "Fault" /\ last.breads = {}

\* C7: after a run of the process, a raised hard fault flag gives Fault,
\* whatever the syscall flag and the returned stack pointer are.
C7_FaultFlagWins ==
    (last.op = "switch" /\ last.hw /\ last.app_fault = 1)
        => last.ret = "Fault"
\* fault flag and syscall flag both raised, the stack pointer in bounds
C7_Witness ==
    /\ last.op = "switch" /\ last.hw
    /\ last.app_fault = 1 /\ last.syscall_fired = 1
    /\ last.sp >= last.ams /\ last.sp + SVC_FRAME_SIZE <= last.brk
    /\ last.ret = "Fault"

\* C8: after a run of the process, a returned stack pointer below
\* accessible_memory_start, or with less than 32 bytes up to app_brk, gives
\* Fault; neither the frame nor the instruction before the stacked pc is
\* read, and nothing is written to process memory.
C8_InvalidStackPointerFaults ==
    ( /\ last.op = "switch" /\ last.hw
      /\ (last.sp < last.ams \/ last.sp + 32 > last.brk) )
        => /\ last.ret = "Fault"
           /\ last.reads = {} /\ last.ireads = {} /\ last.writes = {}
           /\ packed_syscall = None
\* a system call trapped with a frame that does not fit below app_brk
C8_Witness ==
    /\ last.op = "switch" /\ last.hw
    /\ last.app_fault = 0 /\ last.syscall_fired = 1
    /\ last.sp >= last.ams /\ last.sp < last.brk /\ last.sp + 32 > last.brk
    /\ last.ret = "Fault" /\ last.reads = {}

\* C9 as stated: after every operation the stored stack pointer satisfies
\* accessible_memory_start <= psp and psp + 32 <= app_brk for the bounds
\* given to that operation.
C9_Original ==
    last.op \in {"init", "switch", "setret", "setfn"}
        => last.ams <= psp /\ psp + 32 <= last.brk

\* C9 (amended): the stored stack pointer is within the bounds of the call
\* after initialize_process returned Ok and after a switch_to_process that
\* ran the process and returned SyscallFired or Interrupted;
\* set_syscall_return_value, set_process_function and a switch_to_process
\* answered by the batcher leave it as it is.
C9_StackPointerInBounds ==
    [][ /\ ( \/ last'.op = "init" /\ last'.ret = "Ok"
             \/ last'.op = "switch" /\ last'.hw /\ last'.ret # "Fault" )
            => last'.ams <= psp' /\ psp' + 32 <= last'.brk
        /\ ( \/ last'.op \in {"setret", "setfn"}
             \/ last'.op = "switch" /\ ~last'.hw )
            => psp' = psp
      ]_vars
\* the process trapped with a system call and a frame inside its memory
C9_Witness ==
    /\ last.op = "switch" /\ last.hw /\ last.ret = "SyscallFired"
    /\ psp = last.sp /\ last.ams <= psp /\ psp + 32 <= last.brk

\* C10 as stated: after a run of the process with the fault flag clear, the
\* stack pointer in bounds and the syscall flag raised, the call is decoded
\* from the low 8 bits of the instruction before the stacked pc and from frame
\* words 0..3: SyscallFired with that call if the dispatch layer recognizes
\* it, Fault if not.
C10_Original ==
    ( /\ last.op = "switch" /\ last.hw
      /\ last.app_fault = 0 /\ last.syscall_fired = 1
      /\ last.sp >= last.ams /\ last.sp + 32 <= last.brk )
        => LET call == FromRegisterArguments(CodeAt(Load(mem, psp + 24) - 2) % 256,
                                             Load(mem, psp), Load(mem, psp + 4),
                                             Load(mem, psp + 8), Load(mem, psp + 12))
           IN  IF call # None
               THEN last.ret = "SyscallFired" /\ last.syscall = call
               ELSE last.ret = "Fault"

\* C10 (amended): as C10_Original, for every trapped call that does not start
\* a packed system call (svc number 0xfe with a first argument above 0).
C10_TrapDecoded ==
    ( /\ last.op = "switch" /\ last.hw
      /\ last.app_fault = 0 /\ last.syscall_fired = 1
      /\ last.sp >= last.ams /\ last.sp + 32 <= last.brk
      /\ ~ ( CodeAt(Load(mem, psp + 24) - 2) % 256 = PACKED_SVC
             /\ Load(mem, psp) > 0 ) )
        => LET call == FromRegisterArguments(CodeAt(Load(mem, psp + 24) - 2) % 256,
                                             Load(mem, psp), Load(mem, psp + 4),
                                             Load(mem, psp + 8), Load(mem, psp + 12))
           IN  IF call # None
               THEN last.ret = "SyscallFired" /\ last.syscall = call
               ELSE last.ret = "Fault"
\* a Command trapped by `svc 2` is delivered with the four frame arguments
C10_Witness ==
    /\ last.op = "switch" /\ last.hw
    /\ last.app_fault = 0 /\ last.syscall_fired = 1
    /\ CodeAt(Load(mem, psp + 24) - 2) = 57090
    /\ last.ret = "SyscallFired" /\ last.syscall = <<2, 1, 8, 0, 0>>

\* C11: after a run of the process with the stack pointer in bounds, the
\* fault flag clear and the syscall flag clear, switch_to_process returns
\* Interrupted; no batch is created, the frame is not read and nothing is
\* written to process memory.
C11_NeitherFlagInterrupted ==
    ( /\ last.op = "switch" /\ last.hw
      /\ last.app_fault = 0 /\ last.syscall_fired = 0
      /\ last.sp >= last.ams /\ last.sp + SVC_FRAME_SIZE <= last.brk )
        => /\ last.ret = "Interrupted"
           /\ last.syscall = None
           /\ packed_syscall = None /\ ~last.packed
           /\ last.writes = {} /\ last.reads = {} /\ last.ireads = {}
\* the process was preempted with its frame inside its memory
C11_Witness ==
    /\ last.op = "switch" /\ last.hw
    /\ last.app_fault = 0 /\ last.syscall_fired = 0
    /\ last.sp = 68 /\ last.brk = 100 /\ psp = 68
    /\ last.ret = "Interrupted" /\ packed_syscall = None

\* C12: switch_to_process changes the stored yield_pc and psr only when it
\* returns SyscallFired: when it returns Fault (also Fault for a trapped call
\* the dispatch layer does not recognize) or Interrupted, yield_pc and psr are
\* what they were before the call.
C12_ResumeStateOnlyOnSyscallFired ==
    [][ (last'.op = "switch" /\ last'.ret \in {"Fault", "Interrupted"})
            => yield_pc' = yield_pc /\ psr' = psr
      ]_vars

\* C13: when the trapped call is `svc 0xfe` with r0 > 0 (fault flag clear,
\* stack pointer in bounds), switch_to_process leaves a pending batch with
\* count_remaining = r0 and pointer = r1, writes the success code to word 0 of
\* the frame at the stack pointer and to no other word, and returns in the same
\* call what next_packed_syscall gives for the entry at the cursor.
C13_PackedStartDrainsFirst ==
    ( /\ last.op = "switch" /\ last.hw
      /\ last.app_fault = 0 /\ last.syscall_fired = 1
      /\ last.sp >= last.ams /\ last.sp + SVC_FRAME_SIZE <= last.brk
      /\ CodeAt(Load(mem, psp + 24) - 2) % 256 = PACKED_SVC
      /\ last.arg0 > 0 )
        => /\ packed_syscall # None
           /\ packed_syscall.count_remaining = last.arg0
           /\ packed_syscall.pointer = Load(mem, psp + 4)
           /\ Load(mem, psp) = Success
           /\ last.writes = {psp}
           /\ last.ret = NextPackedSyscall(last.ams, last.brk,
                                           packed_syscall, mem).reason
           /\ last.syscall = NextPackedSyscall(last.ams, last.brk,
                                               packed_syscall, mem).syscall
           /\ last.ret = "SyscallFired"
                => last.syscall[2] = Load(mem, Load(mem, psp + 4) + 4)
\* a packed system call of 3 entries at 8: the first Command comes back from
\* the call that trapped
C13_Witness ==
    /\ last.op = "switch" /\ last.hw /\ last.arg0 = 3
    /\ packed_syscall # None
    /\ packed_syscall.count_remaining = 3 /\ packed_syscall.pointer = 8
    /\ Load(mem, psp) = Success
    /\ last.ret = "SyscallFired" /\ last.syscall = <<2, 11, 12, 13, 14>>

\* C14: the error policy of a batch is decoded from the third argument of the
\* packed system call: the word 1 gives CONTINUE, every other word (0, 2, and
\* up to the largest) gives STOP.
C14_PolicyDecoded ==
    /\ \A w \in (0..255) \cup {65536, 2147483647} :
           PolicyFrom(w) = IF w = 1 THEN "CONTINUE" ELSE "STOP"
    /\ (last.op = "switch" /\ last.hw /\ last.packed /\ packed_syscall # None)
        => /\ packed_syscall.error_policy =
                  IF Load(mem, psp + 8) = 1 THEN "CONTINUE" ELSE "STOP"
           /\ hist.policy = packed_syscall.error_policy
\* a packed system call with the policy word 2 runs under STOP
C14_Witness ==
    /\ last.op = "switch" /\ last.hw /\ last.packed /\ packed_syscall # None
    /\ Load(mem, psp + 8) = 2
    /\ packed_syscall.error_policy = "STOP"

\* C15: a trap with `svc 0xfe` and r0 = 0 creates no batch: the call is handed
\* to the dispatch layer like any other (Fault when it is not recognized), and
\* word 0 of the frame is not overwritten with the success code.
C15_ZeroCountStartsNoBatch ==
    ( /\ last.op = "switch" /\ last.hw
      /\ last.app_fault = 0 /\ last.syscall_fired = 1
      /\ last.sp >= last.ams /\ last.sp + SVC_FRAME_SIZE <= last.brk
      /\ CodeAt(Load(mem, psp + 24) - 2) % 256 = PACKED_SVC
      /\ last.arg0 = 0 )
        => /\ packed_syscall = None /\ ~last.packed
           /\ hist = NoHist
           /\ last.writes = {} /\ last.breads = {}
           /\ Load(mem, psp) = 0
           /\ LET call == FromRegisterArguments(PACKED_SVC, Load(mem, psp),
                                                Load(mem, psp + 4), Load(mem, psp + 8),
                                                Load(mem, psp + 12))
              IN  IF call = None
                  THEN last.ret = "Fault"
                  ELSE last.ret = "SyscallFired" /\ last.syscall = call
\* `svc 0xfe` with a count of 0: Fault, the frame as the process left it
C15_Witness ==
    /\ last.op = "switch" /\ last.hw
    /\ last.app_fault = 0 /\ last.syscall_fired = 1
    /\ CodeAt(Load(mem, psp + 24) - 2) % 256 = PACKED_SVC
    /\ last.arg0 = 0 /\ Load(mem, psp) = 0 /\ Load(mem, psp + 4) = 8
    /\ last.ret = "Fault" /\ packed_syscall = None

\* C16: with a batch pending, switch_to_process leaves the cursor, the count,
\* the policy, the stack pointer, the saved registers, yield_pc, psr and
\* process memory as they are; two calls in a row under the same bounds, with
\* no set_syscall_return_value between them, return the same outcome for the
\* same entry.
C16_DrainDoesNotConsume ==
    [][ (packed_syscall # None /\ last'.op = "switch")
            => /\ packed_syscall' = packed_syscall
               /\ psp' = psp /\ regs' = regs
               /\ yield_pc' = yield_pc /\ psr' = psr
               /\ mem' = mem
               /\ (last.op = "switch" /\ last'.ams = last.ams /\ last'.brk = last.brk)
                    => last'.ret = last.ret /\ last'.syscall = last.syscall
      ]_vars
\* the first entry of a batch of 3 handed out again by a second call
C16_Witness ==
    /\ last.op = "switch" /\ ~last.hw /\ last.ret = "SyscallFired"
    /\ packed_syscall # None
    /\ hist.n = 3 /\ packed_syscall.count_remaining = 3
    /\ packed_syscall.pointer = hist.start
    /\ last.syscall = <<2, 11, 12, 13, 14>>

\* C17: a successful set_syscall_return_value writes the four return words to
\* the words cursor + 1 .. cursor + 4 of the current entry when a batch is
\* pending (the svc-number word at the cursor is not among the words the return
\* value is written to; the only other words written are words 0 and 1 of the
\* frame at the stack pointer, under the STOP policy), and to words 0 .. 3 of
\* the frame at the stack pointer when no batch is pending; with no batch
\* pending nothing else of the stored state changes.
C17_ReturnValueDestination ==
    [][ (last'.op = "setret" /\ last'.ret = "Ok")
            => IF packed_syscall # None
               THEN \E rv \in ReturnValues :
                    \E frame \in {<<>>, <<FailureU32, packed_syscall.count_remaining - 1>>} :
                       /\ mem' = StoreSeq(StoreSeq(mem, packed_syscall.pointer + 4,
                                                    rv.words),
                                           psp, frame)
                       /\ (frame # <<>>) => (~rv.ok /\ packed_syscall.error_policy = "STOP")
                       /\ packed_syscall.pointer \notin WordAddrs(psp, Len(frame))
                            => Load(mem', packed_syscall.pointer)
                                  = Load(mem, packed_syscall.pointer)
                       /\ last'.writes = WordAddrs(packed_syscall.pointer + 4, 4)
                       /\ last'.fwrites = WordAddrs(psp, Len(frame))
               ELSE /\ \E rv \in ReturnValues : mem' = StoreSeq(mem, psp, rv.words)
                    /\ last'.writes = WordAddrs(psp, 4)
                    /\ UNCHANGED <<regs, yield_pc, psr, psp, packed_syscall>>
      ]_vars
\* the failure value written to the second entry of a CONTINUE batch at 8:
\* words 32 .. 44 hold it, the svc-number word at 28 is as it was
C17_Witness ==
    /\ last.op = "setret" /\ last.ret = "Ok" /\ last.packed
    /\ last.writes = WordAddrs(32, 4)
    /\ Load(mem, 28) = 2
    /\ Load(mem, 32) = 0 /\ Load(mem, 36) = 3 /\ Load(mem, 40) = 0 /\ Load(mem, 44) = 0
    /\ packed_syscall # None /\ packed_syscall.pointer = 48

\* C18: with a batch pending, every set_syscall_return_value that returns Ok
\* and does not stop the batch (a success value, or the CONTINUE policy) takes
\* 1 off count_remaining and moves the cursor on by one entry of 5 words, and
\* the batch is dropped when the count reaches 0.  After k such calls a batch
\* of N entries at c has N - k entries left at c + 5 * k words, and a batch
\* answered with success values only is over after exactly N calls.
C18_OneEntryPerAnswer ==
    [][ /\ ( /\ packed_syscall # None
             /\ last'.op = "setret" /\ last'.ret = "Ok"
             /\ \/ packed_syscall.error_policy = "CONTINUE"
                \/ Load(mem', packed_syscall.pointer + 4) = Success )
            => packed_syscall' =
                   IF packed_syscall.count_remaining > 1
                   THEN [packed_syscall EXCEPT
                            !.count_remaining = @ - 1, !.pointer = @ + EntryBytes]
                   ELSE None
        /\ packed_syscall' # None
            => /\ packed_syscall'.count_remaining = hist'.n - hist'.answers
               /\ packed_syscall'.pointer = hist'.start + hist'.answers * EntryBytes
               /\ hist'.end = "none"
        /\ hist'.end = "drained"
            => packed_syscall' = None /\ hist'.answers = hist'.n
      ]_vars
\* a batch of 3 answered with three success values
C18_Witness ==
    /\ last.op = "setret" /\ last.ret = "Ok" /\ last.packed
    /\ packed_syscall = None
    /\ hist.n = 3 /\ hist.end = "drained" /\ hist.answers = 3
    /\ hist.strict /\ ~hist.anyFail /\ hist.delivered = 3
    /\ Load(mem, hist.start + 4) = Success
    /\ Load(mem, hist.start + EntryBytes + 4) = Success
    /\ Load(mem, hist.start + 2 * EntryBytes + 4) = Success

\* C19: the entries of a batch are delivered in memory order, each once.  In
\* a batch started with the cursor at c whose delivered entries were each
\* answered by a set_syscall_return_value that returned Ok, the k-th
\* SyscallFired is the call decoded from the 5 words at c + 5 * (k - 1) words,
\* and a batch drained that way had each of its N entries delivered once.
C19_DeliveredInMemoryOrder ==
    /\ ( /\ last.op = "switch" /\ last.ret = "SyscallFired"
         /\ packed_syscall # None /\ hist.strict )
        => LET k == hist.delivered
               entry == hist.start + (k - 1) * EntryBytes
           IN  /\ k \in 1..hist.n
               /\ k = hist.answers + 1
               /\ packed_syscall.pointer = entry
               /\ last.breads = WordAddrs(entry, ENTRY_WORDS)
               /\ last.syscall = << Load(mem, entry) % 256,
                                    Load(mem, entry + 4), Load(mem, entry + 8),
                                    Load(mem, entry + 12), Load(mem, entry + 16) >>
    /\ (hist.end = "drained" /\ hist.strict)
        => hist.delivered = hist.n /\ hist.answers = hist.n
\* the third SyscallFired of a batch of 3 at 8 is the entry at 48
C19_Witness ==
    /\ last.op = "switch" /\ last.ret = "SyscallFired" /\ ~last.hw
    /\ packed_syscall # None /\ hist.strict
    /\ hist.n = 3 /\ hist.start = 8 /\ hist.delivered = 3
    /\ packed_syscall.pointer = 48
    /\ last.syscall = <<2, 31, 32, 33, 34>>

\* C20: set_syscall_return_value returns an error, writes nothing to process
\* memory and leaves the stored state (cursor and count of a pending batch
\* included) as it is when its destination is out of bounds: with a batch
\* pending, when the cursor is below accessible_memory_start or cursor +
\* count_remaining * 5 words is above app_brk; with no batch pending, when the
\* stack pointer is below accessible_memory_start or stack pointer + 4 words is
\* above app_brk.
C20_OutOfBoundsReturnRejected ==
    [][ ( /\ last'.op = "setret"
          /\ IF packed_syscall # None
             THEN \/ packed_syscall.pointer < last'.ams
                  \/ packed_syscall.count_remaining
                        > (last'.brk - packed_syscall.pointer) \div EntryBytes
             ELSE \/ psp < last'.ams
                  \/ psp + 4 * U32_SZ > last'.brk )
            => /\ last'.ret = "Err"
               /\ mem' = mem
               /\ UNCHANGED <<regs, yield_pc, psr, psp, packed_syscall>>
      ]_vars

\* C21: every word an operation writes to process memory lies inside
\* [accessible_memory_start, app_brk) of the bounds passed to that call; in
\* particular the failure code and the count of skipped entries are written to
\* the frame at the stack pointer only when that frame is inside the bounds of
\* the call.
C21_WritesInsideBounds ==
    last.op \in {"init", "switch", "setret", "setfn"}
        => /\ \A a \in last.writes : last.ams <= a /\ a < last.brk
           /\ \A a \in last.fwrites : last.ams <= a /\ a < last.brk

\* C22: the bounds check of a batch is sound for every count and cursor a
\* process can pass, the product count * 20 being computed modulo 2^32: an
\* entry is read only when the 5 words at the cursor lie inside
\* [accessible_memory_start, app_brk), and neither next_packed_syscall nor
\* set_syscall_return_value touches a word of the batch at or above app_brk.
C22_WrappedCountStaysInBounds ==
    /\ (last.op = "switch" /\ last.breads # {})
        => \A a \in last.breads : last.ams <= a /\ a < last.brk
    /\ (last.op = "setret" /\ last.packed /\ last.ret = "Ok")
        => \A a \in last.writes : a < last.brk

\* C23: a set_process_function that returns Ok leaves, in the frame at the
\* stack pointer, word 6 (pc) = callback.pc | 1, word 5 (lr) = yield_pc | 1,
\* words 0 .. 3 = the four callback arguments and word 7 = the stored psr;
\* the callback address 0x2001 is written as 0x2001.
C23_FunctionFrameWritten ==
    [][ (last'.op = "setfn" /\ last'.ret = "Ok")
            => \E cb \in Callbacks :
                  /\ Load(mem', psp + 24)
                        = IF cb.pc % 2 = 1 THEN cb.pc ELSE cb.pc + 1
                  /\ Load(mem', psp + 20)
                        = IF yield_pc % 2 = 1 THEN yield_pc ELSE yield_pc + 1
                  /\ \A i \in 1..4 : Load(mem', psp + 4 * (i - 1)) = cb.args[i]
                  /\ Load(mem', psp + 28) = psr
      ]_vars
\* an upcall scheduled after a system call that trapped from pc 260
C23_Witness ==
    /\ last.op = "setfn" /\ last.ret = "Ok"
    /\ yield_pc = 260 /\ psp = 68
    /\ Load(mem, 92) = 8193 /\ Load(mem, 88) = 261
    /\ Load(mem, 68) = 21 /\ Load(mem, 72) = 22
    /\ Load(mem, 76) = 23 /\ Load(mem, 80) = 24
    /\ Load(mem, 96) = psr /\ psr = UserFrame.psr

\* C24: set_process_function leaves word 4 (r12) of the frame as it is and
\* changes no field of the stored state: stack pointer, saved registers,
\* yield_pc, psr and a pending batch are the same after the call as before it,
\* whether it returns Ok or Err.
C24_FunctionKeepsStateAndR12 ==
    [][ last'.op = "setfn"
            => /\ Load(mem', psp + 16) = Load(mem, psp + 16)
               /\ UNCHANGED <<regs, yield_pc, psr, psp, packed_syscall>>
      ]_vars
\* an upcall scheduled while a batch is pending: r12 still as the process
\* stacked it
C24_Witness ==
    /\ last.op = "setfn" /\ last.ret = "Ok"
    /\ packed_syscall # None /\ packed_syscall.count_remaining = 3
    /\ psp = 68 /\ regs = UserRegs
    /\ Load(mem, psp + 16) = UserFrame.r12
    /\ Load(mem, psp + 24) = 8193

\* C25: set_process_function returns Err and writes no word of process memory
\* when the stack pointer is below accessible_memory_start or stack pointer +
\* 32 is above app_brk.
C25_FunctionRejectsBadFrame ==
    [][ ( /\ last'.op = "setfn"
          /\ (psp < last'.ams \/ psp + 32 > last'.brk) )
            => /\ last'.ret = "Err"
               /\ mem' = mem
               /\ last'.writes = {}
      ]_vars
\* the stack pointer is inside the region but the frame ends above app_brk
C25_Witness ==
    /\ last.op = "setfn" /\ last.ret = "Err"
    /\ psp >= last.ams /\ psp < last.brk /\ psp + 32 > last.brk
    /\ last.writes = {}

\* C26: initialize_process returns Ok and leaves the stack pointer at
\* app_brk - 32 whenever app_brk - accessible_memory_start >= 32, and returns
\* Err whenever 0 <= app_brk - accessible_memory_start < 32.
C26_InitializeNeedsOneFrame ==
    last.op = "init"
        => IF last.brk - last.ams >= 32
           THEN last.ret = "Ok" /\ psp = last.brk - 32
           ELSE last.ret = "Err"
\* a region of exactly 32 bytes is accepted
C26_Witness ==
    /\ last.op = "init" /\ last.ret = "Ok"
    /\ last.brk - last.ams = 32 /\ psp = last.ams

\* C27: from any state, an initialize_process that returns Ok leaves the 8
\* saved registers 0, yield_pc 0, psr 0x01000000 and the stack pointer at
\* app_brk - 32, whatever they were before; a second call with the same bounds
\* leaves the whole stored state as the first call left it.
C27_InitializeIdempotent ==
    [][ /\ (last'.op = "init" /\ last'.ret = "Ok")
            => /\ \A i \in 1..8 : regs'[i] = 0
               /\ yield_pc' = 0
               /\ psr' = 16777216
               /\ psp' = last'.brk - 32
               /\ packed_syscall' = packed_syscall
        /\ ( /\ last.op = "init" /\ last'.op = "init"
             /\ last'.ams = last.ams /\ last'.brk = last.brk )
            => /\ UNCHANGED <<regs, yield_pc, psr, psp, packed_syscall>>
               /\ last'.ret = last.ret
      ]_vars
\* initialize_process called a second time with the bounds 8 and 100
C27_Witness ==
    /\ last.op = "init" /\ last.again /\ last.ret = "Ok"
    /\ last.ams = 8 /\ last.brk = 100
    /\ regs = ZeroRegs /\ yield_pc = 0 /\ psr = INITIAL_PSR /\ psp = 68

\* C28: try_from returns Ok only for a buffer whose length is exactly the
\* expected 68 bytes and whose version, size and tag words hold 1, 56 and
\* "ctxm"; a valid buffer with one byte of these three words changed, and a
\* valid buffer cut or extended, is rejected with FAIL.
C28_DecodeRejectsMismatch ==
    last.op = "decode"
        => /\ last.ret \in {"Ok", "FAIL"}
           /\ last.ret = "Ok"
                => /\ Len(last.bytes) = 68
                   /\ SubSeq(last.bytes, 1, 12)
                        = <<1, 0, 0, 0, 56, 0, 0, 0, 99, 116, 120, 109>>
\* a buffer of the expected length, rejected for one changed byte of the tag
C28_Witness ==
    /\ last.op = "decode" /\ last.ret = "FAIL"
    /\ Len(last.bytes) = 68
    /\ SubSeq(last.bytes, 1, 12) = <<1, 0, 0, 0, 56, 0, 0, 0, 100, 116, 120, 109>>

\* C29: a buffer that try_from accepted, encoded again by store_context from
\* the decoded state into a fresh buffer of the same length, comes back
\* identical in every byte.
C29_DecodeEncodeIdentity ==
    [][ ( /\ last.op = "decode" /\ last.ret = "Ok"
          /\ last'.op = "store"
          /\ Len(last'.bytes) = Len(last.bytes) )
            => last'.ret = "Ok" /\ last'.bytes = last.bytes
      ]_vars

\* C30: store_context returns SIZE and leaves every byte of the buffer as it
\* was when the buffer is shorter than the 68 bytes it requires; otherwise it
\* writes the words version, size, tag, yield_pc, psr, psp, regs[0] .. regs[7]
\* little-endian from byte 0 on, leaves the bytes after them as they were and
\* returns the number of bytes written, 56.
C30_EncodeLayout ==
    last.op = "store"
        => IF Len(last.bytes) < 68
           THEN /\ last.ret = "SIZE"
                /\ \A i \in 1..Len(last.bytes) : last.bytes[i] = last.fill
           ELSE LET words == <<1, 56, 1836610659, yield_pc, psr, psp>> \o regs
                IN  /\ last.ret = "Ok"
                    /\ \A k \in 1..14 :
                          /\ last.bytes[4 * k - 3] = words[k] % 256
                          /\ last.bytes[4 * k - 2] = (words[k] \div 256) % 256
                          /\ last.bytes[4 * k - 1] = (words[k] \div 65536) % 256
                          /\ last.bytes[4 * k] = (words[k] \div 16777216) % 256
                    /\ last.written = 56
                    /\ \A i \in (last.written + 1)..Len(last.bytes) :
                          last.bytes[i] = last.fill
\* a state with distinct registers written into a buffer of 80 bytes
C30_Witness ==
    /\ last.op = "store" /\ last.ret = "Ok" /\ last.written = 56
    /\ Len(last.bytes) = 80 /\ last.fill = 170
    /\ regs = UserRegs /\ yield_pc = 262 /\ psr = UserFrame.psr /\ psp = 68
    /\ SubSeq(last.bytes, 13, 28) = <<6, 1, 0, 0, 0, 0, 0, 33, 68, 0, 0, 0, 4, 0, 0, 0>>
    /\ last.bytes[53] = 11 /\ last.bytes[57] = 170

\* C31: a state that try_from returns has no pending batch; a state with a
\* pending batch, written by store_context into a buffer of the length
\* try_from expects and decoded from that buffer, comes back with no pending
\* batch and with yield_pc, psr, psp and the 8 registers as they were encoded.
C31_DecodedStateHasNoBatch ==
    [][ /\ (last'.op = "decode" /\ last'.ret = "Ok") => packed_syscall' = None
        /\ ( /\ last.op = "store" /\ last.ret = "Ok" /\ Len(last.bytes) = 68
             /\ packed_syscall # None
             /\ last'.op = "decode" /\ last'.bytes = last.bytes )
            => /\ last'.ret = "Ok"
               /\ packed_syscall' = None
               /\ UNCHANGED <<regs, yield_pc, psr, psp>>
      ]_vars
\* the snapshot of a state with a pending batch decoded from the buffer
\* store_context filled; no batch is pending after it
C31_Witness ==
    /\ last.op = "decode" /\ last.ret = "Ok"
    /\ last.bytes[57] = 170 /\ last.bytes[68] = 170
    /\ last.packed /\ packed_syscall = None
    /\ regs = UserRegs /\ yield_pc = 262 /\ psr = UserFrame.psr /\ psp = 68

\* C37: for a stored state with no pending batch, the first n bytes of the
\* buffer store_context filled, n being the count it returned, are accepted
\* by try_from and decode to the same yield_pc, psr, psp and 8 registers.
C37_EncodeDecodeRoundTrip ==
    [][ ( /\ last.op = "store" /\ last.ret = "Ok" /\ packed_syscall = None
          /\ last'.op = "decode"
          /\ last'.bytes = SubSeq(last.bytes, 1, last.written) )
            => /\ last'.ret = "Ok"
               /\ UNCHANGED <<regs, yield_pc, psr, psp>>
      ]_vars

\* C32: print_context reads the 8 frame words at the stack pointer when
\* accessible_memory_start <= psp and psp + 32 <= app_brk, and prints them;
\* otherwise it reads no process memory and prints 0xBAD00BAD for all 8. It
\* changes neither the stored state nor process memory, and it prints the
\* Thumb-only error string exactly when bit 24 of the status word it used is 0
\* (the frame's word 7, or the sentinel, whose bit 24 is 0).
C32_PrintContextReadsInBounds ==
    [][ last'.op = "print"
            => /\ IF last'.ams <= psp /\ psp + 32 <= last'.brk
                  THEN /\ last'.reads = {psp + 4 * i : i \in 0..7}
                       /\ \A i \in 1..8 :
                             last'.shown[i][1] * 65536 + last'.shown[i][2]
                                = Load(mem, psp + 4 * (i - 1))
                       /\ last'.thumb_error
                            <=> (Load(mem, psp + 28) \div 16777216) % 2 = 0
                  ELSE /\ last'.reads = {}
                       /\ \A i \in 1..8 : last'.shown[i] = <<47824, 2989>>
                       /\ last'.thumb_error
               /\ UNCHANGED <<regs, yield_pc, psr, psp, packed_syscall, mem>>
      ]_vars
\* the frame of a process that trapped: status word 0x21000000, no error
C32_Witness ==
    /\ last.op = "print" /\ ~last.thumb_error
    /\ psp = 68 /\ last.brk = 100 /\ last.reads = {68, 72, 76, 80, 84, 88, 92, 96}
    /\ last.shown[8] = <<8448, 0>> /\ last.shown[5] = <<0, 12>>

\* C33: in the kernel loop, under unchanged bounds and with batches whose
\* entries all decode and hold a Yield at most last, a pending batch of N
\* entries has been answered fewer than N times, it is eventually discarded,
\* and a switch_to_process that invokes switch_to_user eventually follows.
C33_BatchDrains ==
    /\ [](packed_syscall # None => hist.answers < hist.n)
    /\ [](hist.answers <= hist.n)
    /\ (packed_syscall # None) ~> (packed_syscall = None)
    /\ (packed_syscall # None) ~> (last.op = "switch" /\ last.hw)
\* a batch of 3 discarded by the third answer
C33_Witness ==
    /\ last.op = "setret" /\ last.ret = "Ok" /\ last.packed
    /\ packed_syscall = None
    /\ hist.n = 3 /\ hist.answers = 3 /\ hist.end = "drained"

\* C34: when switch_to_process returned Fault with a batch pending and the
\* process is then restarted by an initialize_process that returns Ok, the
\* stored state has no pending batch, so that the next switch_to_process
\* invokes switch_to_user.
C34_RestartClearsBatch ==
    [][ ( /\ last.op = "switch" /\ last.ret = "Fault" /\ packed_syscall # None
          /\ last'.op = "init" /\ last'.ret = "Ok" )
            => packed_syscall' = None
      ]_vars

\* C35: between two operations of the boundary, a pending batch has
\* count_remaining >= 1.
C35_PendingBatchNotEmpty ==
    packed_syscall # None => packed_syscall.count_remaining >= 1
\* the second of three answers leaves a batch with one entry pending
C35_Witness ==
    /\ last.op = "setret" /\ last.ret = "Ok" /\ last.packed
    /\ packed_syscall # None /\ packed_syscall.count_remaining = 1
    /\ hist.n = 3 /\ hist.answers = 2

\* C36: after every switch_to_process, whatever reason it returned,
\* APP_HARD_FAULT and SYSCALL_FIRED are both 0, so that a flag raised during
\* one run of a process is not read again after a later run.
C36_FlagsClearedAfterSwitch ==
    last.op = "switch" => APP_HARD_FAULT = 0 /\ SYSCALL_FIRED = 0
\* both handlers ran during one run: Fault is returned, both flags are clear
C36_Witness ==
    /\ last.op = "switch" /\ last.hw /\ last.ret = "Fault"
    /\ last.app_fault = 1 /\ last.syscall_fired = 1
    /\ APP_HARD_FAULT = 0 /\ SYSCALL_FIRED = 0

\* C38 as claimed: a set_syscall_return_value that does not stop the batch
\* (CONTINUE policy, or STOP policy with a successful entry) leaves words 0
\* and 1 of the entry-point frame as they were, and when the batch is drained
\* word 0 holds the success code written at batch start.
C38_Original ==
    [][ ( /\ last'.op = "setret" /\ last'.packed /\ last'.ret = "Ok"
          /\ hist'.end # "stopped" )
            => /\ Load(mem', hist.entry_sp) = Load(mem, hist.entry_sp)
               /\ Load(mem', hist.entry_sp + 4) = Load(mem, hist.entry_sp + 4)
               /\ hist'.end = "drained" => Load(mem', hist.entry_sp) = 128
      ]_vars

\* C38: a set_syscall_return_value that does not stop the batch writes nothing
\* to the entry-point frame on account of the policy: word 0 and word 1 of the
\* frame are after the call as they were before it, unless the word lies in
\* the four return words of the entry answered (a batch buffer laid over the
\* frame).
C38_EntryFrameKept ==
    [][ ( /\ last'.op = "setret" /\ last'.packed /\ last'.ret = "Ok"
          /\ hist'.end # "stopped" )
            => \A a \in {hist.entry_sp, hist.entry_sp + 4} :
                  \/ ( /\ packed_syscall.pointer + 4 <= a
                       /\ a < packed_syscall.pointer + 20 )
                  \/ Load(mem', a) = Load(mem, a)
      ]_vars
\* a batch of 3 under CONTINUE drained with a failure among the answers: the
\* frame still holds the success code and the buffer address
C38_Witness ==
    /\ last.op = "setret" /\ last.ret = "Ok" /\ last.packed /\ last.fwrites = {}
    /\ hist.policy = "CONTINUE" /\ hist.anyFail /\ hist.end = "drained"
    /\ hist.n = 3 /\ hist.answers = 3 /\ hist.entry_sp = 68
    /\ Load(mem, 68) = Success /\ Load(mem, 72) = 8

\* C39: the outcome of next_packed_syscall for an entry depends on the first
\* word of the entry only through its low 8 bits: it is the outcome for the
\* same buffer with the bits 8 and above of that word cleared.
C39_CallNumberLowByte ==
    (last.op = "switch" /\ last.packed /\ packed_syscall # None)
        => LET cursor == packed_syscall.pointer
               low == Store(mem, cursor, Load(mem, cursor) % 256)
               out == NextPackedSyscall(last.ams, last.brk, packed_syscall, low)
           IN  /\ last.ret = out.reason
               /\ last.syscall = out.syscall
\* the entry with first word 0x102 is delivered as call 2 with its arguments
C39_Witness ==
    /\ last.op = "switch" /\ last.packed /\ packed_syscall # None
    /\ Load(mem, packed_syscall.pointer) = 258
    /\ last.ret = "SyscallFired"
    /\ last.syscall = <<2, 11, 12, 13, 14>>

====
